---- MODULE Spec2Model ----
(***************************************************************************)
(* Trainer Mini App API (src/main.py, src/requests.py, src/models.py).     *)
(*                                                                         *)
(* The store is six tables; every table is a sequence of rows in rowid     *)
(* order.  No operation deletes a row, so the next primary key is the      *)
(* table's length plus one.  Every HTTP request runs in a slot; each       *)
(* "await" of a database round trip in the data access layer is one step,  *)
(* and requests in different slots interleave between steps.               *)
(*                                                                         *)
(* Python's None is the string "None" in string columns and 0 in integer   *)
(* columns (primary keys start at 1).                                      *)
(***************************************************************************)
EXTENDS Integers, Sequences, FiniteSets, TLC

VARIABLES users, products, user_products, programs, videos, support, req

vars == <<users, products, user_products, programs, videos, support, req>>

tables == <<users, products, user_products, programs, videos, support>>

(***************************************************************************)
(* Bounds of the model.                                                    *)
(***************************************************************************)
MaxUsers == 3
MaxProducts == 2
MaxActivations == 2
MaxContent == 4
MaxSupport == 1

(* Two requests are in flight at most.  Where a specification draws the    *)
(* slot of a request from AnyKind, slot 1 runs a request of any kind and   *)
(* slot 2 runs scan-qr requests, the only requests that write the          *)
(* activation table and the only ones that pass a display name or handle.  *)
Slots == {1, 2}
AnyKind == {1}
TgIds == {7, 9}
QRCodes == {"q1", "q2"}
OrderIndices == {0, 1, 2}

None == "None"

(***************************************************************************)
(* Python truthiness of an Optional[str]: None and "" are falsy.           *)
(***************************************************************************)
Truthy(s) == s # None /\ s # ""

(* datetime.utcnow as logical time: the number of rows stamped so far.     *)
(* Only users.created_at and support_requests.created_at are kept;         *)
(* products.created_at and user_products.activated_at are written once     *)
(* and read by no code.                                                    *)
Now == Len(users) + Len(support)

Range(s) == {s[i] : i \in 1..Len(s)}

(* A WHERE clause is SelectSeq: the matching rows of a table, in rowid     *)
(* order.                                                                  *)

(***************************************************************************)
(* Rows and views.                                                         *)
(***************************************************************************)
NoUser == [id |-> 0, tg_id |-> 0, first_name |-> None, username |-> None,
           created_at |-> 0]

NoProduct == [id |-> 0, name |-> None, description |-> None, qr_code |-> None,
              image_url |-> None]

(* ProductSchema.model_validate(p).model_dump()                            *)
ProductSchema(p) == [id |-> p.id, name |-> p.name,
                     description |-> p.description, image_url |-> p.image_url]

(* TrainingVideoSchema.model_validate(v).model_dump()                      *)
TrainingVideoSchema(v) == [id |-> v.id, title |-> v.title,
                           youtube_url |-> v.youtube_url,
                           description |-> v.description,
                           order_index |-> v.order_index,
                           duration_seconds |-> v.duration_seconds]

(* SupportRequestSchema.model_validate(s).model_dump()                     *)
SupportRequestSchema(s) == [id |-> s.id, message |-> s.message,
                            status |-> s.status, created_at |-> s.created_at]

(***************************************************************************)
(* Schema constraints (src/models.py).                                     *)
(***************************************************************************)
(* User.tg_id = mapped_column(BigInteger, unique=True); UniqueTgIdOff is   *)
(* the column declared without unique=True.                                *)
UniqueTgIdOff == FALSE

UniqueTgId == TRUE

(* Product.qr_code = mapped_column(String(64), unique=True)                *)
UniqueQrCode == TRUE

(* UserProduct declares no uniqueness constraint on (user_id, product_id); *)
(* UniqueUserProductOn is the table with one.                              *)
UniqueUserProductOn == TRUE

UniqueUserProduct == FALSE

(***************************************************************************)
(* Queries of the data access layer, each one database round trip.         *)
(***************************************************************************)
(* session.scalar(select(User).where(User.tg_id == tg_id))                 *)
SelectUserByTgId(tg_id) ==
    LET Match(u) == u.tg_id = tg_id
        m == SelectSeq(users, Match)
    IN  IF m = <<>> THEN NoUser ELSE m[1]

(* session.scalar(select(Product).where(Product.qr_code == qr_code))       *)
SelectProductByQr(qr_code) ==
    LET Match(p) == p.qr_code = qr_code
        m == SelectSeq(products, Match)
    IN  IF m = <<>> THEN NoProduct ELSE m[1]

(* select(UserProduct).where(user_id == .., product_id == ..), all rows in *)
(* rowid order; session.scalar takes the first.  SelectExistingNever is    *)
(* the check left out.                                                     *)
SelectExistingNever(user_id, product_id) == <<>>

SelectExisting(user_id, product_id) ==
    LET Match(up) == up.user_id = user_id /\ up.product_id = product_id
    IN  SelectSeq(user_products, Match)

(* The row selectinload(UserProduct.product) attaches to an activation.    *)
ProductOf(up) == products[up.product_id]

(* get_user_products: one view per activation row of the user, in rowid    *)
(* order.                                                                  *)
RECURSIVE MapProductViews(_)
MapProductViews(ups) ==
    IF ups = <<>> THEN <<>>
    ELSE <<ProductSchema(ProductOf(Head(ups)))>> \o MapProductViews(Tail(ups))

(* select(UserProduct).where(UserProduct.user_id == user_id)               *)
UserProductRows(user_id) ==
    LET Match(up) == up.user_id = user_id
    IN  SelectSeq(user_products, Match)

(* The call when nothing is written between its two round trips.           *)
get_user_products(user_id) == MapProductViews(UserProductRows(user_id))

(***************************************************************************)
(* Ordering.  ORDER BY order_index and sorted(key=order_index) are both    *)
(* modelled as a stable ascending sort of rows taken in rowid order.       *)
(***************************************************************************)
RECURSIVE InsertByOrderIndex(_, _)
InsertByOrderIndex(x, s) ==
    IF s = <<>> THEN <<x>>
    ELSE IF s[Len(s)].order_index <= x.order_index THEN Append(s, x)
    ELSE Append(InsertByOrderIndex(x, SubSeq(s, 1, Len(s) - 1)), s[Len(s)])

RECURSIVE SortByOrderIndex(_)
(* Unsorted is the query without its ordering.                             *)
Unsorted(s) == s

SortByOrderIndex(s) ==
    IF s = <<>> THEN <<>>
    ELSE InsertByOrderIndex(s[Len(s)], SortByOrderIndex(SubSeq(s, 1, Len(s) - 1)))

(* ORDER BY created_at DESC, stable on rowid.                              *)
RECURSIVE InsertByCreatedDesc(_, _)
InsertByCreatedDesc(x, s) ==
    IF s = <<>> THEN <<x>>
    ELSE IF s[Len(s)].created_at >= x.created_at THEN Append(s, x)
    ELSE Append(InsertByCreatedDesc(x, SubSeq(s, 1, Len(s) - 1)), s[Len(s)])

RECURSIVE SortByCreatedDesc(_)
SortByCreatedDesc(s) ==
    IF s = <<>> THEN <<>>
    ELSE InsertByCreatedDesc(s[Len(s)], SortByCreatedDesc(SubSeq(s, 1, Len(s) - 1)))

RECURSIVE MapVideoViews(_)
MapVideoViews(vs) ==
    IF vs = <<>> THEN <<>>
    ELSE <<TrainingVideoSchema(Head(vs))>> \o MapVideoViews(Tail(vs))

(* The rows selectinload(TrainingProgram.videos) attaches to a program.    *)
VideosOf(program_id) ==
    LET Match(v) == v.program_id = program_id
    IN  SelectSeq(videos, Match)

(* TrainingProgramSchema.model_validate(p).model_dump(), then the videos   *)
(* re-sorted by order_index (requests.py line 144).                        *)
TrainingProgramSchema(p) ==
    [id |-> p.id, title |-> p.title, description |-> p.description,
     order_index |-> p.order_index,
     videos |-> SortByOrderIndex(MapVideoViews(VideosOf(p.id)))]

RECURSIVE MapProgramViews(_)
MapProgramViews(ps) ==
    IF ps = <<>> THEN <<>>
    ELSE <<TrainingProgramSchema(Head(ps))>> \o MapProgramViews(Tail(ps))

(* select(TrainingProgram).where(product_id == ..).order_by(order_index)   *)
ProgramRows(product_id) ==
    LET Match(p) == p.product_id = product_id
    IN  SortByOrderIndex(SelectSeq(programs, Match))

(* The call when nothing is written between its two round trips.           *)
get_training_programs(product_id) == MapProgramViews(ProgramRows(product_id))

get_program_videos(program_id) ==
    MapVideoViews(SortByOrderIndex(VideosOf(program_id)))

RECURSIVE MapSupportViews(_)
MapSupportViews(ss) ==
    IF ss = <<>> THEN <<>>
    ELSE <<SupportRequestSchema(Head(ss))>> \o MapSupportViews(Tail(ss))

get_user_support_requests(user_id) ==
    LET Match(s) == s.user_id = user_id
    IN  MapSupportViews(SortByCreatedDesc(SelectSeq(support, Match)))

(***************************************************************************)
(* Requests.  pc is the await the handler is suspended at.                 *)
(***************************************************************************)
Fresh == [kind |-> "none", pc |-> "idle", tg_id |-> 0, first_name |-> None,
          username |-> None, qr_code |-> None, arg |-> 0, user |-> NoUser,
          message |-> None, product |-> NoProduct, rows |-> <<>>,
          status |-> 0, body |-> <<>>]

Free(r) == req[r].pc \in {"idle", "done"}

(* The handler returns (200) or raises HTTPException / an unhandled fault. *)
Respond(r, status, body) ==
    req' = [req EXCEPT ![r] =
              [Fresh EXCEPT !.kind = req[r].kind, !.pc = "done",
                            !.tg_id = req[r].tg_id, !.qr_code = req[r].qr_code,
                            !.arg = req[r].arg, !.status = status,
                            !.body = body]]

Goto(r, pc) == req' = [req EXCEPT ![r].pc = pc]

(* What each handler awaits after add_or_get_user returns (src/main.py).   *)
AfterUser(kind) ==
    CASE kind = "scan" -> "lookup"
      [] kind \in {"user", "product", "programs"} -> "list"
      [] kind = "support" -> "insert_support"
      [] kind = "support_list" -> "list_support"

(***************************************************************************)
(* add_or_get_user (src/requests.py 59-76).                                *)
(***************************************************************************)
(* Line 62: a handler starts and add_or_get_user selects the row.          *)
Begin(r, kind, tg_id, first_name, username, qr_code, arg, message) ==
    /\ Free(r)
    /\ req' = [req EXCEPT ![r] =
                 [Fresh EXCEPT !.kind = kind, !.pc = "commit", !.tg_id = tg_id,
                               !.first_name = first_name, !.username = username,
                               !.qr_code = qr_code, !.arg = arg,
                               !.message = message,
                               !.user = SelectUserByTgId(tg_id)]]
    /\ UNCHANGED tables

(* Lines 65-68: the attribute the ORM object holds after the assignment.   *)
Updated(loaded, supplied) ==
    IF Truthy(supplied) /\ loaded # supplied THEN supplied ELSE loaded

(* Lines 63-70: the row was found.  The flush writes only the attributes   *)
(* that were assigned, to the row with the loaded primary key.             *)
CommitExisting(r) ==
    LET q == req[r]
        u == q.user
        fn == Updated(u.first_name, q.first_name)
        un == Updated(u.username, q.username)
    IN  /\ q.pc = "commit"
        /\ u # NoUser
        /\ users' = [users EXCEPT ![u.id] =
                       [@ EXCEPT !.first_name = IF fn # u.first_name THEN fn ELSE @,
                                 !.username = IF un # u.username THEN un ELSE @]]
        /\ req' = [req EXCEPT ![r] =
                     [@ EXCEPT !.pc = AfterUser(q.kind),
                               !.user = [u EXCEPT !.first_name = fn,
                                                  !.username = un]]]
        /\ UNCHANGED <<products, user_products, programs, videos, support>>

(* As CommitNew and RefreshNew, with session.add(new_user) and the refresh  *)
(* left out.                                                               *)
CommitNewUnsaved(r) ==
    LET q == req[r]
        new == [id |-> Len(users) + 1, tg_id |-> q.tg_id,
                first_name |-> q.first_name, username |-> q.username,
                created_at |-> Now]
    IN  /\ q.pc = "commit"
        /\ q.user = NoUser
        /\ req' = [req EXCEPT ![r] =
                     [@ EXCEPT !.pc = AfterUser(q.kind), !.user = new]]
        /\ UNCHANGED tables

(* Lines 72-74: no row was found; insert and commit.  The unique index on  *)
(* tg_id rejects the insert when a row appeared meanwhile.                 *)
CommitNew(r) ==
    LET q == req[r]
        new == [id |-> Len(users) + 1, tg_id |-> q.tg_id,
                first_name |-> q.first_name, username |-> q.username,
                created_at |-> Now]
    IN  /\ q.pc = "commit"
        /\ q.user = NoUser
        /\ IF UniqueTgId /\ SelectUserByTgId(q.tg_id) # NoUser
           THEN /\ Respond(r, 500, <<>>)
                /\ UNCHANGED tables
           ELSE /\ Len(users) < MaxUsers
                /\ users' = Append(users, new)
                /\ req' = [req EXCEPT ![r] =
                             [@ EXCEPT !.pc = "refresh", !.user = new]]
                /\ UNCHANGED <<products, user_products, programs, videos, support>>

(* Lines 75-76: session.refresh(new_user) selects the row by its primary   *)
(* key again, and add_or_get_user returns the object so reloaded.          *)
RefreshNew(r) ==
    LET q == req[r]
    IN  /\ q.pc = "refresh"
        /\ req' = [req EXCEPT ![r] =
                     [@ EXCEPT !.pc = AfterUser(q.kind),
                               !.user = users[q.user.id]]]
        /\ UNCHANGED tables

(***************************************************************************)
(* activate_product_for_user (src/requests.py 86-107) called by            *)
(* scan_qr_code (src/main.py 68-86).                                       *)
(***************************************************************************)
ScanBody(product) == <<ProductSchema(product)>>

(* As ActivateLookup, with the activation row added before the product is *)
(* checked.                                                                *)
ActivateLookupEager(r) ==
    LET q == req[r]
        product == SelectProductByQr(q.qr_code)
        new == [id |-> Len(user_products) + 1, user_id |-> q.user.id,
                product_id |-> product.id]
    IN  /\ q.pc = "lookup"
        /\ IF product = NoProduct
           THEN /\ Respond(r, 404, <<>>)
                /\ Len(user_products) < MaxActivations
                /\ user_products' = Append(user_products, new)
                /\ UNCHANGED <<users, products, programs, videos, support>>
           ELSE /\ req' = [req EXCEPT ![r] = [@ EXCEPT !.pc = "existing",
                                                       !.product = product]]
                /\ UNCHANGED tables

(* Lines 89-91: select the product; None makes the handler raise 404.      *)
ActivateLookup(r) ==
    LET q == req[r]
        product == SelectProductByQr(q.qr_code)
    IN  /\ q.pc = "lookup"
        /\ IF product = NoProduct
           THEN Respond(r, 404, <<>>)
           ELSE req' = [req EXCEPT ![r] = [@ EXCEPT !.pc = "existing",
                                                    !.product = product]]
        /\ UNCHANGED tables

(* Lines 94-102: select the existing activation; found, return the product.*)
ActivateCheck(r) ==
    LET q == req[r]
    IN  /\ q.pc = "existing"
        /\ IF SelectExisting(q.user.id, q.product.id) # <<>>
           THEN Respond(r, 200, ScanBody(q.product))
           ELSE Goto(r, "activate")
        /\ UNCHANGED tables

(* Lines 104-107: insert the activation and commit.                        *)
ActivateInsert(r) ==
    LET q == req[r]
        new == [id |-> Len(user_products) + 1, user_id |-> q.user.id,
                product_id |-> q.product.id]
    IN  /\ q.pc = "activate"
        /\ IF UniqueUserProduct /\ SelectExisting(q.user.id, q.product.id) # <<>>
           THEN /\ Respond(r, 500, <<>>)
                /\ UNCHANGED tables
           ELSE /\ Len(user_products) < MaxActivations
                /\ user_products' = Append(user_products, new)
                /\ Respond(r, 200, ScanBody(q.product))
                /\ UNCHANGED <<users, products, programs, videos, support>>

(***************************************************************************)
(* get_user_info, get_product_details, get_training_programs               *)
(* (src/main.py 51-127): the await of rq.get_user_products and the         *)
(* synchronous code after it.                                              *)
(***************************************************************************)
RECURSIVE ProductIds(_)
ProductIds(views) ==
    IF views = <<>> THEN {} ELSE {Head(views).id} \cup ProductIds(Tail(views))

(* main.py 99 / 119: product_id not in product_ids.  NoAccessNever is the  *)
(* handler without the check.                                              *)
NoAccessNever(views, product_id) == FALSE

NoAccess(views, product_id) == product_id \notin ProductIds(views)

(* main.py 102: next((p for p in user_products if p['id'] == id), None),   *)
(* as the list of the first match, empty for None.  FindProductNone is a   *)
(* lookup that matches nothing.                                            *)
FindProductNone(views, product_id) == <<>>

FindProduct(views, product_id) ==
    LET Match(p) == p.id = product_id
        m == SelectSeq(views, Match)
    IN  IF m = <<>> THEN <<>> ELSE <<m[1]>>

(* main.py 58-63: the user part of the get_user_info response.             *)
UserInfo(user) ==
    [id |-> user.id, tg_id |-> user.tg_id, first_name |-> user.first_name,
     username |-> user.username]

(* The synchronous code of the three handlers after get_user_products      *)
(* returned views.                                                         *)
AfterProducts(r, views) ==
    LET q == req[r]
        found == FindProduct(views, q.arg)
    IN  CASE q.kind = "user" ->
               Respond(r, 200, <<[user |-> UserInfo(q.user), products |-> views]>>)
          [] q.kind = "product" ->
               IF NoAccess(views, q.arg) THEN Respond(r, 403, <<>>)
               ELSE IF found = <<>> THEN Respond(r, 404, <<>>)
               ELSE Respond(r, 200, found)
          [] q.kind = "programs" ->
               IF NoAccess(views, q.arg) THEN Respond(r, 403, <<>>)
               ELSE req' = [req EXCEPT ![r] = [@ EXCEPT !.pc = "list_programs",
                                                        !.rows = <<>>]]

(* requests.py 112-117: the first round trip of get_user_products selects  *)
(* the activation rows of the user.  selectinload issues no second SELECT  *)
(* for an empty result, so the call returns [] at once.                    *)
SelectActivations(r) ==
    LET q == req[r]
        rows == UserProductRows(q.user.id)
    IN  /\ q.pc = "list"
        /\ IF rows = <<>>
           THEN AfterProducts(r, <<>>)
           ELSE req' = [req EXCEPT ![r] = [@ EXCEPT !.pc = "load_products",
                                                    !.rows = rows]]
        /\ UNCHANGED tables

(* requests.py 112-125: the second round trip, selectinload's SELECT of    *)
(* the products of the rows held, then the views and the handler's code.   *)
ListProducts(r) ==
    /\ req[r].pc = "load_products"
    /\ AfterProducts(r, MapProductViews(req[r].rows))
    /\ UNCHANGED tables

(* requests.py 131-136: the first round trip of get_training_programs      *)
(* selects the programs of the product ORDER BY order_index; no second     *)
(* SELECT follows an empty result.                                         *)
SelectPrograms(r) ==
    LET q == req[r]
        rows == ProgramRows(q.arg)
    IN  /\ q.pc = "list_programs"
        /\ IF rows = <<>>
           THEN Respond(r, 200, <<>>)
           ELSE req' = [req EXCEPT ![r] = [@ EXCEPT !.pc = "load_videos",
                                                    !.rows = rows]]
        /\ UNCHANGED tables

(* requests.py 131-147: the second round trip, selectinload's SELECT of    *)
(* the videos of the programs held, then the views (main.py 122-127).      *)
ListPrograms(r) ==
    /\ req[r].pc = "load_videos"
    /\ Respond(r, 200, MapProgramViews(req[r].rows))
    /\ UNCHANGED tables

(* get_training_videos (src/main.py 130-139): tg_id is not used.           *)
ListVideos(r, tg_id, program_id) ==
    /\ Free(r)
    /\ req' = [req EXCEPT ![r] =
                 [Fresh EXCEPT !.kind = "videos", !.pc = "done", !.tg_id = tg_id,
                               !.arg = program_id, !.status = 200,
                               !.body = get_program_videos(program_id)]]
    /\ UNCHANGED tables

(***************************************************************************)
(* Support requests (src/main.py 143-169, src/requests.py 166-192).        *)
(***************************************************************************)
(* requests.py 167-175: insert the request and commit.                     *)
InsertSupport(r) ==
    LET q == req[r]
        new == [id |-> Len(support) + 1, user_id |-> q.user.id,
                product_id |-> q.arg, message |-> q.message, status |-> "new",
                created_at |-> Now]
    IN  /\ q.pc = "insert_support"
        /\ Len(support) < MaxSupport
        /\ support' = Append(support, new)
        /\ req' = [req EXCEPT ![r] = [@ EXCEPT !.pc = "refresh_support",
                                                !.rows = <<new>>]]
        /\ UNCHANGED <<users, products, user_products, programs, videos>>

(* requests.py 176-177 and main.py 153-158: session.refresh(request)       *)
(* selects the row again; the handler answers with its id.                 *)
RefreshSupport(r) ==
    LET q == req[r]
        request == support[q.rows[1].id]
    IN  /\ q.pc = "refresh_support"
        /\ Respond(r, 200, <<[request_id |-> request.id]>>)
        /\ UNCHANGED tables

ListSupport(r) ==
    /\ req[r].pc = "list_support"
    /\ Respond(r, 200, get_user_support_requests(req[r].user.id))
    /\ UNCHANGED tables

(***************************************************************************)
(* Administrative inserts (src/main.py 173-195, src/requests.py 196-241).  *)
(* Each is one commit; the response is not kept, so an insert the unique   *)
(* index on qr_code rejects (an unhandled fault, no row) is no step.       *)
(***************************************************************************)
add_product(name, qr_code, description, image_url) ==
    LET new == [id |-> Len(products) + 1, name |-> name,
                description |-> description, qr_code |-> qr_code,
                image_url |-> image_url]
    IN  /\ Len(products) < MaxProducts
        /\ ~(UniqueQrCode /\ SelectProductByQr(qr_code) # NoProduct)
        /\ products' = Append(products, new)
        /\ UNCHANGED <<users, user_products, programs, videos, support, req>>

add_training_program(product_id, title, description, order_index) ==
    LET new == [id |-> Len(programs) + 1, product_id |-> product_id,
                title |-> title, description |-> description,
                order_index |-> order_index]
    IN  /\ Len(programs) + Len(videos) < MaxContent
        /\ programs' = Append(programs, new)
        /\ UNCHANGED <<users, products, user_products, videos, support, req>>

add_training_video(program_id, title, youtube_url, description, order_index, duration_seconds) ==
    LET new == [id |-> Len(videos) + 1, program_id |-> program_id,
                title |-> title, youtube_url |-> youtube_url,
                description |-> description, order_index |-> order_index,
                duration_seconds |-> duration_seconds]
    IN  /\ Len(programs) + Len(videos) < MaxContent
        /\ videos' = Append(videos, new)
        /\ UNCHANGED <<users, products, user_products, programs, support, req>>

(***************************************************************************)
(* Specifications.                                                         *)
(***************************************************************************)
FirstNames == {None, "", "ann", "bob"}
UserNames == {None, "u1", "u2"}
ProductIdArgs == {1, 2}
ProgramIdArgs == {1, 2}
Messages == {"help", "late"}

Empty ==
    /\ users = <<>>
    /\ products = <<>>
    /\ user_products = <<>>
    /\ programs = <<>>
    /\ videos = <<>>
    /\ support = <<>>
    /\ req = [r \in Slots |-> Fresh]

BeginUser(r, tgs) == \E tg \in tgs : Begin(r, "user", tg, None, None, None, 0, None)

BeginScan(r, tgs, qrs, fns, uns) ==
    \E tg \in tgs, qr \in qrs, fn \in fns, un \in uns :
        Begin(r, "scan", tg, fn, un, qr, 0, None)

BeginProduct(r, tgs, ps) ==
    \E tg \in tgs, p \in ps : Begin(r, "product", tg, None, None, None, p, None)

BeginPrograms(r, tgs, ps) ==
    \E tg \in tgs, p \in ps : Begin(r, "programs", tg, None, None, None, p, None)

BeginSupport(r, tgs, ps, ms) ==
    \E tg \in tgs, p \in ps, m \in ms :
        Begin(r, "support", tg, None, None, None, p, m)

BeginSupportList(r, tgs) ==
    \E tg \in tgs : Begin(r, "support_list", tg, None, None, None, 0, None)

BeginVideos(r, tgs, ps) == \E tg \in tgs, p \in ps : ListVideos(r, tg, p)

AdminProduct == \E qr \in QRCodes : add_product("kettlebell", qr, None, None)

AdminProgram ==
    \E p \in ProductIdArgs, o \in OrderIndices :
        add_training_program(p, "program", None, o)

AdminVideo ==
    \E p \in ProgramIdArgs, o \in OrderIndices :
        add_training_video(p, "video", "url", None, o, 0)

(* One program with one video, inserted by the administrative endpoints.   *)
Program1 == [id |-> 1, product_id |-> 1, title |-> "program",
             description |-> None, order_index |-> 0]

Video1 == [id |-> 1, program_id |-> 1, title |-> "video", youtube_url |-> "url",
           description |-> None, order_index |-> 0, duration_seconds |-> 0]

(***************************************************************************)
(* Spec: requests of every identity-bearing endpoint interleave freely.    *)
(***************************************************************************)
Init ==
    /\ users = <<>>
    /\ products = <<>>
    /\ user_products = <<>>
    /\ programs = <<Program1>>
    /\ videos = <<Video1>>
    /\ support = <<>>
    /\ req = [r \in Slots |-> Fresh]

Next ==
    \/ \E r \in AnyKind : BeginUser(r, TgIds)
    \/ \E r \in Slots : BeginScan(r, TgIds, QRCodes, {None}, {None})
    \/ \E r \in AnyKind : BeginProduct(r, TgIds, ProductIdArgs)
    \/ \E r \in AnyKind : BeginPrograms(r, TgIds, ProductIdArgs)
    \/ \E r \in AnyKind : BeginVideos(r, TgIds, ProgramIdArgs)
    \/ \E r \in Slots : CommitExisting(r)
    \/ \E r \in Slots : CommitNew(r)
    \/ \E r \in Slots : RefreshNew(r)
    \/ \E r \in Slots : ActivateLookup(r)
    \/ \E r \in Slots : ActivateCheck(r)
    \/ \E r \in Slots : ActivateInsert(r)
    \/ \E r \in Slots : SelectActivations(r)
    \/ \E r \in Slots : ListProducts(r)
    \/ \E r \in Slots : SelectPrograms(r)
    \/ \E r \in Slots : ListPrograms(r)
    \/ AdminProduct

Spec == Init /\ [][Next]_vars

(***************************************************************************)
(* SpecUsers: scan-qr and user requests of one caller interleave on an     *)
(* empty catalogue, with every display name and handle the caller can      *)
(* supply.                                                                 *)
(***************************************************************************)
NextUsers ==
    \/ \E r \in Slots : BeginUser(r, {7})
    \/ \E r \in Slots : BeginScan(r, {7}, {"q1"}, FirstNames, UserNames)
    \/ \E r \in Slots : CommitExisting(r)
    \/ \E r \in Slots : CommitNew(r)
    \/ \E r \in Slots : RefreshNew(r)
    \/ \E r \in Slots : ActivateLookup(r)
    \/ \E r \in Slots : SelectActivations(r)

SpecUsers == Empty /\ [][NextUsers]_vars

(***************************************************************************)
(* Rows the administrative endpoints and a first scan leave behind.        *)
(***************************************************************************)
Product1 == [id |-> 1, name |-> "kettlebell", description |-> None,
             qr_code |-> "q1", image_url |-> None]

User1 == [id |-> 1, tg_id |-> 7, first_name |-> None, username |-> None,
          created_at |-> 0]

Activation1 == [id |-> 1, user_id |-> 1, product_id |-> 1]

(***************************************************************************)
(* SpecEndpoints: the seven endpoints that take a tg_id, over a catalogue  *)
(* of one product; "q2" matches no product.                                *)
(***************************************************************************)
InitEndpoints ==
    /\ users = <<>>
    /\ products = <<Product1>>
    /\ user_products = <<>>
    /\ programs = <<Program1>>
    /\ videos = <<Video1>>
    /\ support = <<>>
    /\ req = [r \in Slots |-> Fresh]

NextEndpoints ==
    \/ \E r \in AnyKind : BeginUser(r, TgIds)
    \/ \E r \in Slots : BeginScan(r, TgIds, QRCodes, {None}, {None})
    \/ \E r \in AnyKind : BeginProduct(r, TgIds, {1})
    \/ \E r \in AnyKind : BeginPrograms(r, TgIds, {1})
    \/ \E r \in AnyKind : BeginVideos(r, TgIds, {1})
    \/ \E r \in AnyKind : BeginSupport(r, TgIds, {1}, {"help"})
    \/ \E r \in Slots : BeginSupportList(r, TgIds)
    \/ \E r \in Slots : CommitExisting(r)
    \/ \E r \in Slots : CommitNew(r)
    \/ \E r \in Slots : RefreshNew(r)
    \/ \E r \in Slots : ActivateLookup(r)
    \/ \E r \in Slots : ActivateCheck(r)
    \/ \E r \in Slots : ActivateInsert(r)
    \/ \E r \in Slots : SelectActivations(r)
    \/ \E r \in Slots : ListProducts(r)
    \/ \E r \in Slots : SelectPrograms(r)
    \/ \E r \in Slots : ListPrograms(r)
    \/ \E r \in Slots : InsertSupport(r)
    \/ \E r \in Slots : RefreshSupport(r)
    \/ \E r \in Slots : ListSupport(r)

SpecEndpoints == InitEndpoints /\ [][NextEndpoints]_vars

(***************************************************************************)
(* SpecSequentialActivation: as Spec, but a call of                        *)
(* activate_product_for_user starts only when no other call of it is       *)
(* running.                                                                *)
(***************************************************************************)
NoOtherActivation(r) ==
    \A s \in Slots \ {r} : req[s].pc \notin {"existing", "activate"}

NextSequentialActivation ==
    \/ \E r \in AnyKind : BeginUser(r, TgIds)
    \/ \E r \in Slots : BeginScan(r, TgIds, QRCodes, {None}, {None})
    \/ \E r \in Slots : CommitExisting(r)
    \/ \E r \in Slots : CommitNew(r)
    \/ \E r \in Slots : RefreshNew(r)
    \/ \E r \in Slots : NoOtherActivation(r) /\ ActivateLookup(r)
    \/ \E r \in Slots : ActivateCheck(r)
    \/ \E r \in Slots : ActivateInsert(r)
    \/ \E r \in Slots : SelectActivations(r)
    \/ \E r \in Slots : ListProducts(r)
    \/ AdminProduct

SpecSequentialActivation == Empty /\ [][NextSequentialActivation]_vars

(***************************************************************************)
(* SpecSerial: one request at a time, each run to its response.            *)
(***************************************************************************)
Quiet == \A s \in Slots : Free(s)

NextSerial ==
    \/ \E r \in AnyKind : BeginUser(r, TgIds)
    \/ \E r \in AnyKind : BeginScan(r, TgIds, QRCodes, {None, "", "ann", "bob"}, {None, "u1"})
    \/ \E r \in AnyKind : CommitExisting(r)
    \/ \E r \in AnyKind : CommitNew(r)
    \/ \E r \in AnyKind : RefreshNew(r)
    \/ \E r \in AnyKind : ActivateLookup(r)
    \/ \E r \in AnyKind : ActivateCheck(r)
    \/ \E r \in AnyKind : ActivateInsert(r)
    \/ \E r \in AnyKind : SelectActivations(r)
    \/ \E r \in AnyKind : ListProducts(r)
    \/ Quiet /\ AdminProduct

SpecSerial == Empty /\ [][NextSerial]_vars

(***************************************************************************)
(* SpecSupport: one known caller files and lists support requests from two *)
(* overlapping requests, with or without a product.                        *)
(***************************************************************************)
InitSupport ==
    /\ users = <<User1>>
    /\ products = <<Product1>>
    /\ user_products = <<>>
    /\ programs = <<>>
    /\ videos = <<>>
    /\ support = <<>>
    /\ req = [r \in Slots |-> Fresh]

NextSupport ==
    \/ \E r \in Slots : BeginSupport(r, {7}, {0, 1}, Messages)
    \/ \E r \in Slots : BeginSupportList(r, {7})
    \/ \E r \in Slots : CommitExisting(r)
    \/ \E r \in Slots : InsertSupport(r)
    \/ \E r \in Slots : RefreshSupport(r)
    \/ \E r \in Slots : ListSupport(r)

SpecSupport == InitSupport /\ [][NextSupport]_vars

(***************************************************************************)
(* SpecContent: the administrative endpoints fill the programs and videos  *)
(* tables in any order while one caller who activated product 1 reads.     *)
(***************************************************************************)
InitContent ==
    /\ users = <<User1>>
    /\ products = <<Product1>>
    /\ user_products = <<Activation1>>
    /\ programs = <<>>
    /\ videos = <<>>
    /\ support = <<>>
    /\ req = [r \in Slots |-> Fresh]

NextContent ==
    \/ \E r \in AnyKind : BeginPrograms(r, {7}, ProductIdArgs)
    \/ \E r \in AnyKind : BeginVideos(r, {7}, ProgramIdArgs)
    \/ \E r \in AnyKind : CommitExisting(r)
    \/ \E r \in AnyKind : SelectActivations(r)
    \/ \E r \in AnyKind : ListProducts(r)
    \/ \E r \in AnyKind : SelectPrograms(r)
    \/ \E r \in AnyKind : ListPrograms(r)
    \/ AdminProgram
    \/ AdminVideo

SpecContent == InitContent /\ [][NextContent]_vars

(***************************************************************************)
(* Properties.                                                             *)
(***************************************************************************)
Stepped(r) == req'[r] # req[r]

Done(r) == req[r].pc = "done"

(* add_or_get_user has returned a user to the handler in slot r.           *)
Returned(r) == req[r].pc \notin {"idle", "commit", "refresh", "done"}

UserRows(tg_id) == {i \in 1..Len(users) : users[i].tg_id = tg_id}

Activations(user_id, product_id) ==
    {i \in 1..Len(user_products) :
        /\ user_products[i].user_id = user_id
        /\ user_products[i].product_id = product_id}

(* The user ids of the rows that carry tg_id.                              *)
UserIdsOf(tg_id) == {users[i].id : i \in UserRows(tg_id)}

(* ----------------------------------------------------------------------- *)
(* C4: in every reachable state, interleaved add_or_get_user calls         *)
(* included, the users table holds at most one row per tg_id; every call   *)
(* that returned a user for a tg_id returned the id of that one row; and   *)
(* no step deletes a user row or changes its id or tg_id.                  *)
C4_AtMostOneRow == \A tg \in TgIds : Cardinality(UserRows(tg)) <= 1

C4_SameId ==
    \A r \in Slots :
        Returned(r) =>
            /\ UserIdsOf(req[r].tg_id) = {req[r].user.id}
            /\ \A q \in Slots :
                 (Returned(q) /\ req[q].tg_id = req[r].tg_id)
                     => req[q].user.id = req[r].user.id

C4_NeverDeleted ==
    \A i \in 1..Len(users) :
        /\ i <= Len(users')
        /\ users'[i].id = users[i].id
        /\ users'[i].tg_id = users[i].tg_id

C4_OneRowPerTgId ==
    /\ [](C4_AtMostOneRow /\ C4_SameId)
    /\ [][C4_NeverDeleted]_vars

(* Two calls for one new tg_id overlapped: one insert was rejected, the    *)
(* other call returned the single row.                                     *)
C4_Witness ==
    \E r, q \in Slots :
        /\ Done(r) /\ req[r].status = 500
        /\ req[q].tg_id = req[r].tg_id
        /\ Cardinality(UserRows(req[r].tg_id)) = 1

(* ----------------------------------------------------------------------- *)
(* C9: the insert of activate_product_for_user is never rejected: a call   *)
(* that read "no existing activation" appends its row and returns the      *)
(* product even when another call inserted the same (user, product) pair   *)
(* in between, so two rows for one pair are reachable.                     *)
C9_InsertStep ==
    \A r \in Slots :
        (req[r].pc = "activate" /\ Stepped(r)) =>
            /\ user_products' =
                 Append(user_products,
                        [id |-> Len(user_products) + 1,
                         user_id |-> req[r].user.id,
                         product_id |-> req[r].product.id])
            /\ req'[r].pc = "done"
            /\ req'[r].status = 200

C9_RaceInsertsTwice == [][C9_InsertStep]_vars

C9_Witness ==
    \E u \in 1..Len(users), p \in 1..Len(products) :
        /\ Cardinality(Activations(u, p)) = 2
        /\ \A r \in Slots : Done(r) /\ req[r].kind = "scan" /\ req[r].status = 200

(* ----------------------------------------------------------------------- *)
(* C2: when get_product_details or get_training_programs selects the       *)
(* caller's activation rows and the store holds none of the caller for     *)
(* product_id, the handler answers 403 with no data, at once or after      *)
(* loading the products of the rows it holds; the rows it holds are rows   *)
(* of the store; a handler that got past the check, and every 200 response *)
(* of the two endpoints, has an activation row of (caller, product_id) in  *)
(* the store.                                                              *)
Guarded(r) == req[r].kind \in {"product", "programs"}

(* The activation rows of the requested product among the rows the        *)
(* handler holds between the two round trips of get_user_products.         *)
HeldFor(r) ==
    {i \in 1..Len(req[r].rows) : req[r].rows[i].product_id = req[r].arg}

Refused(r) ==
    /\ req'[r].pc = "done"
    /\ req'[r].status = 403
    /\ req'[r].body = <<>>

C2_ReadStep ==
    \A r \in Slots :
        /\ (/\ Guarded(r)
            /\ req[r].pc = "list"
            /\ Stepped(r)
            /\ Activations(req[r].user.id, req[r].arg) = {})
               => \/ Refused(r)
                  \/ /\ req'[r].pc = "load_products"
                     /\ \A i \in 1..Len(req'[r].rows) :
                          req'[r].rows[i].product_id # req[r].arg
        /\ (/\ Guarded(r)
            /\ req[r].pc = "load_products"
            /\ Stepped(r)
            /\ HeldFor(r) = {})
               => Refused(r)

C2_Caller ==
    \A r \in Slots :
        (/\ Guarded(r)
         /\ req[r].pc \in {"list", "load_products", "list_programs", "load_videos"})
            => /\ req[r].user.id \in 1..Len(users)
               /\ users[req[r].user.id].tg_id = req[r].tg_id

C2_Held ==
    \A r \in Slots :
        (Guarded(r) /\ req[r].pc = "load_products")
            => \A i \in 1..Len(req[r].rows) :
                   /\ req[r].rows[i] \in Range(user_products)
                   /\ req[r].rows[i].user_id = req[r].user.id

C2_Success ==
    \A r \in Slots :
        /\ (Guarded(r) /\ req[r].pc \in {"list_programs", "load_videos"})
              => Activations(req[r].user.id, req[r].arg) # {}
        /\ (Guarded(r) /\ Done(r) /\ req[r].status = 200)
              => \E u \in UserIdsOf(req[r].tg_id) :
                     Activations(u, req[r].arg) # {}

C2_ForbiddenWithoutActivation ==
    /\ [](C2_Caller /\ C2_Held /\ C2_Success)
    /\ [][C2_ReadStep]_vars

(* One caller was refused a product that exists and that another caller    *)
(* has activated.                                                          *)
C2_Witness ==
    \E r \in Slots :
        /\ Guarded(r) /\ Done(r) /\ req[r].status = 403
        /\ req[r].arg \in 1..Len(products)
        /\ \E i \in 1..Len(user_products) :
               user_products[i].product_id = req[r].arg

(* ----------------------------------------------------------------------- *)
(* C10 as stated: the only outcomes of get_product_details are the product *)
(* view (200) or 403.                                                      *)
C10_OnlyViewOr403 ==
    \A r \in Slots :
        (req[r].kind = "product" /\ Done(r)) => req[r].status \in {200, 403}

(* C10 as amended: get_product_details never answers 404; once             *)
(* add_or_get_user has returned, the handler answers 403 or 200 with the   *)
(* view of the requested product; the only other outcome is the unhandled  *)
(* fault (500) of add_or_get_user's rejected insert.                       *)
C10_Never404Inv ==
    \A r \in Slots :
        (req[r].kind = "product" /\ Done(r))
            => /\ req[r].status \in {200, 403, 500}
               /\ req[r].status = 200 =>
                    /\ req[r].arg \in 1..Len(products)
                    /\ req[r].body = <<ProductSchema(products[req[r].arg])>>

C10_ListStep ==
    \A r \in Slots :
        /\ (req[r].kind = "product" /\ req[r].pc = "list" /\ Stepped(r))
              => \/ req'[r].pc = "load_products"
                 \/ req'[r].pc = "done" /\ req'[r].status = 403
        /\ (req[r].kind = "product" /\ req[r].pc = "load_products" /\ Stepped(r))
              => /\ req'[r].pc = "done"
                 /\ req'[r].status \in {200, 403}

C10_Never404 == []C10_Never404Inv /\ [][C10_ListStep]_vars

(* The check passed and the lookup found the product, for a caller who     *)
(* holds the product twice.                                                *)
C10_Witness ==
    \E r \in Slots :
        /\ req[r].kind = "product" /\ Done(r) /\ req[r].status = 200
        /\ \E u \in UserIdsOf(req[r].tg_id) :
               Cardinality(Activations(u, req[r].arg)) = 2

(* ----------------------------------------------------------------------- *)
(* C7: get_user_products(user_id) is exactly the views of the products the *)
(* user activated, one entry per product, none of another user.            *)
ActivatedViews(user_id) ==
    {ProductSchema(products[p]) :
        p \in {x \in 1..Len(products) : Activations(user_id, x) # {}}}

C7_ExactlyActivated ==
    \A u \in 1..Len(users) :
        /\ Range(get_user_products(u)) = ActivatedViews(u)
        /\ Len(get_user_products(u)) = Cardinality(ActivatedViews(u))

(* ----------------------------------------------------------------------- *)
(* C6 as stated: after a request of any of the seven endpoints that take   *)
(* a tg_id completes with 200, 403 or 404, a user row with that tg_id      *)
(* exists.                                                                 *)
Completed(r) == Done(r) /\ req[r].status \in {200, 403, 404}

IdentityKinds ==
    {"user", "scan", "product", "programs", "videos", "support", "support_list"}

C6_EveryEndpointCreatesUser ==
    \A r \in Slots :
        (req[r].kind \in IdentityKinds /\ Completed(r))
            => UserRows(req[r].tg_id) # {}

(* C6 as amended: the same for six of the endpoints; GET                   *)
(* /api/training-videos/{program_id} ignores its tg_id and leaves the      *)
(* users table as it was.                                                  *)
C6_SixCreate ==
    \A r \in Slots :
        (req[r].kind \in IdentityKinds \ {"videos"} /\ Completed(r))
            => UserRows(req[r].tg_id) # {}

C6_VideosStep ==
    \A r \in Slots :
        (Stepped(r) /\ req'[r].kind = "videos") => users' = users

C6_SixEndpointsCreateUser == []C6_SixCreate /\ [][C6_VideosStep]_vars

(* A first contact that ended in 403 and one that ended in 404 each left   *)
(* a user row behind.                                                      *)
C6_Witness ==
    \E r, q \in Slots :
        /\ req[r].kind = "product" /\ Done(r) /\ req[r].status = 403
        /\ req[q].kind = "scan" /\ Done(q) /\ req[q].status = 404
        /\ req[r].tg_id # req[q].tg_id
        /\ UserRows(req[r].tg_id) # {}
        /\ UserRows(req[q].tg_id) # {}
        /\ user_products = <<>>

(* ----------------------------------------------------------------------- *)
(* C1: when calls of activate_product_for_user do not overlap, a scan of   *)
(* an existing product's code by a user without an activation adds exactly *)
(* one row for (user, product) and returns that product; a scan by a user  *)
(* who has one returns the same product and adds nothing; no (user,        *)
(* product) pair ever has two rows.                                        *)
ProductWithQr(qr_code) ==
    CHOOSE p \in Range(products) : p.qr_code = qr_code

C1_NoDuplicate ==
    \A i, j \in 1..Len(user_products) :
        (/\ user_products[i].user_id = user_products[j].user_id
         /\ user_products[i].product_id = user_products[j].product_id) => i = j

C1_CheckStep ==
    \A r \in Slots :
        (req[r].pc = "existing" /\ Stepped(r)) =>
            /\ user_products' = user_products
            /\ IF Activations(req[r].user.id, req[r].product.id) # {}
               THEN /\ req'[r].pc = "done"
                    /\ req'[r].status = 200
                    /\ req'[r].body =
                         <<ProductSchema(ProductWithQr(req[r].qr_code))>>
               ELSE req'[r].pc = "activate"

C1_InsertStep ==
    \A r \in Slots :
        (req[r].pc = "activate" /\ Stepped(r)) =>
            /\ Activations(req[r].user.id, req[r].product.id) = {}
            /\ user_products' =
                 Append(user_products,
                        [id |-> Len(user_products) + 1,
                         user_id |-> req[r].user.id,
                         product_id |-> ProductWithQr(req[r].qr_code).id])
            /\ req'[r].pc = "done"
            /\ req'[r].status = 200
            /\ req'[r].body = <<ProductSchema(ProductWithQr(req[r].qr_code))>>

C1_SequentialScanIdempotent ==
    /\ []C1_NoDuplicate
    /\ [][C1_CheckStep /\ C1_InsertStep]_vars

(* The same user scanned the same code twice, got the same product both    *)
(* times, and holds one row for it.                                        *)
C1_Witness ==
    /\ \A r \in Slots : req[r].kind = "scan" /\ Done(r) /\ req[r].status = 200
    /\ req[1].tg_id = req[2].tg_id
    /\ req[1].qr_code = req[2].qr_code
    /\ req[1].body = req[2].body
    /\ \E u \in UserIdsOf(req[1].tg_id) :
           Cardinality(Activations(u, ProductWithQr(req[1].qr_code).id)) = 1

(* ----------------------------------------------------------------------- *)
(* C3 as stated: a scan-qr request whose code matches no product answers   *)
(* 404 and leaves every table as it was.                                   *)
UnknownQr(r) ==
    /\ req[r].kind = "scan"
    /\ req[r].pc \in {"commit", "refresh", "lookup"}
    /\ \A i \in 1..Len(products) : products[i].qr_code # req[r].qr_code

C3_NothingStep ==
    \A r \in Slots :
        UnknownQr(r) =>
            /\ tables' = tables
            /\ req[r].pc = "lookup" => (req'[r].pc = "done" /\ req'[r].status = 404)

C3_NoRecords == [][C3_NothingStep]_vars

(* C3 as amended: such a request answers 404 and leaves products,          *)
(* activations, programs, videos and support requests as they were; in the *)
(* users table it may add the row of its tg_id or update that row's        *)
(* first_name and username, and changes no other row.                      *)
C3_UserRowStep ==
    \A r \in Slots :
        UnknownQr(r) =>
            /\ UNCHANGED <<products, user_products, programs, videos, support>>
            /\ req[r].pc = "lookup" =>
                 (req'[r].pc = "done" /\ req'[r].status = 404 /\ users' = users)
            /\ Len(users') \in {Len(users), Len(users) + 1}
            /\ \A i \in 1..Len(users') :
                 IF i > Len(users) THEN users'[i].tg_id = req[r].tg_id
                 ELSE /\ users'[i].id = users[i].id
                      /\ users'[i].tg_id = users[i].tg_id
                      /\ users'[i].created_at = users[i].created_at
                      /\ users[i].tg_id # req[r].tg_id => users'[i] = users[i]

C3_OnlyTheUserRow == [][C3_UserRowStep]_vars

(* A first contact scanned a code no product has, while another product    *)
(* exists: 404, and the caller's row is in the users table.                *)
C3_Witness ==
    \E r \in Slots :
        /\ req[r].kind = "scan" /\ Done(r) /\ req[r].status = 404
        /\ products # <<>>
        /\ Len(users) = 1
        /\ users[1].tg_id = req[r].tg_id
        /\ user_products = <<>>

(* ----------------------------------------------------------------------- *)
(* C5: when add_or_get_user finds the row, the stored first_name           *)
(* afterwards is the supplied one if that is non-empty and the stored one  *)
(* otherwise, the same for username, and id, tg_id and created_at keep     *)
(* their values.                                                           *)
C5_UpdateStep ==
    \A r \in Slots :
        (req[r].pc = "commit" /\ req[r].user # NoUser /\ Stepped(r)) =>
            LET id == req[r].user.id
            IN  /\ Len(users') = Len(users)
                /\ users'[id].first_name =
                     IF Truthy(req[r].first_name) THEN req[r].first_name
                     ELSE users[id].first_name
                /\ users'[id].username =
                     IF Truthy(req[r].username) THEN req[r].username
                     ELSE users[id].username
                /\ users'[id].id = users[id].id
                /\ users'[id].tg_id = users[id].tg_id
                /\ users'[id].created_at = users[id].created_at

C5_StoredEqualsSupplied == [][C5_UpdateStep]_vars

(* ----------------------------------------------------------------------- *)
(* C8: get_training_programs(product_id) is exactly the programs of that   *)
(* product in non-decreasing order_index, each with exactly its own videos *)
(* in non-decreasing order_index; get_program_videos(program_id) is        *)
(* exactly that program's videos in non-decreasing order_index; whatever   *)
(* the insertion order.  In the handler the programs are those of the      *)
(* store when the programs are selected, and the videos of each are those  *)
(* of the store when the videos are selected.                              *)
Ascending(s) ==
    \A i \in 1..(Len(s) - 1) : s[i].order_index <= s[i + 1].order_index

VideoViewsOf(program_id) ==
    {TrainingVideoSchema(videos[i]) :
        i \in {x \in 1..Len(videos) : videos[x].program_id = program_id}}

ProgramIdsOf(product_id) ==
    {programs[i].id :
        i \in {x \in 1..Len(programs) : programs[x].product_id = product_id}}

ProgramsOk(res, product_id) ==
    /\ Ascending(res)
    /\ {res[i].id : i \in 1..Len(res)} = ProgramIdsOf(product_id)
    /\ Len(res) = Cardinality(ProgramIdsOf(product_id))
    /\ \A i \in 1..Len(res) :
         /\ res[i].order_index = programs[res[i].id].order_index
         /\ res[i].title = programs[res[i].id].title
         /\ Ascending(res[i].videos)
         /\ Range(res[i].videos) = VideoViewsOf(res[i].id)
         /\ Len(res[i].videos) = Cardinality(VideoViewsOf(res[i].id))

VideosOk(res, program_id) ==
    /\ Ascending(res)
    /\ Range(res) = VideoViewsOf(program_id)
    /\ Len(res) = Cardinality(VideoViewsOf(program_id))

C8_Queries ==
    /\ \A p \in 0..(Len(products) + 1) : ProgramsOk(get_training_programs(p), p)
    /\ \A g \in 0..(Len(programs) + 1) : VideosOk(get_program_videos(g), g)

(* The rows the first round trip of get_training_programs returned.       *)
RowsOk(rows, product_id) ==
    /\ Ascending(rows)
    /\ {rows[i].id : i \in 1..Len(rows)} = ProgramIdsOf(product_id)
    /\ Len(rows) = Cardinality(ProgramIdsOf(product_id))
    /\ \A i \in 1..Len(rows) : rows[i] = programs[rows[i].id]

(* The views built from those rows by the second round trip.               *)
ViewsOk(res, rows) ==
    /\ Len(res) = Len(rows)
    /\ Ascending(res)
    /\ \A i \in 1..Len(res) :
         /\ res[i].id = rows[i].id
         /\ res[i].order_index = rows[i].order_index
         /\ res[i].title = rows[i].title
         /\ Ascending(res[i].videos)
         /\ Range(res[i].videos) = VideoViewsOf(res[i].id)
         /\ Len(res[i].videos) = Cardinality(VideoViewsOf(res[i].id))

C8_Held ==
    \A r \in Slots :
        req[r].pc = "load_videos"
            => /\ Ascending(req[r].rows)
               /\ \A i \in 1..Len(req[r].rows) :
                    /\ req[r].rows[i] \in Range(programs)
                    /\ req[r].rows[i].product_id = req[r].arg
               /\ \A i, j \in 1..Len(req[r].rows) :
                    req[r].rows[i].id = req[r].rows[j].id => i = j

C8_HandlerStep ==
    \A r \in Slots :
        /\ (req[r].pc = "list_programs" /\ Stepped(r))
              => IF ProgramIdsOf(req[r].arg) = {}
                 THEN /\ req'[r].pc = "done"
                      /\ req'[r].status = 200
                      /\ req'[r].body = <<>>
                 ELSE /\ req'[r].pc = "load_videos"
                      /\ RowsOk(req'[r].rows, req[r].arg)
        /\ (req[r].pc = "load_videos" /\ Stepped(r))
              => /\ req'[r].pc = "done"
                 /\ req'[r].status = 200
                 /\ ViewsOk(req'[r].body, req[r].rows)
        /\ (Stepped(r) /\ req'[r].kind = "videos")
              => (req'[r].status = 200 /\ VideosOk(req'[r].body, req'[r].arg))

C8_SortedContent == [](C8_Queries /\ C8_Held) /\ [][C8_HandlerStep]_vars

(* Programs inserted at order indices 2, 0, 1 for one product were         *)
(* returned by the handler at 0, 1, 2, with a video attached to one.       *)
C8_Witness ==
    /\ Len(programs) = 3
    /\ \A i \in 1..3 : programs[i].product_id = 1
    /\ programs[1].order_index = 2
    /\ programs[2].order_index = 0
    /\ programs[3].order_index = 1
    /\ Len(videos) = 1
    /\ \E r \in Slots :
         /\ req[r].kind = "programs" /\ Done(r) /\ req[r].status = 200
         /\ Len(req[r].body) = 3
         /\ req[r].body[1].id = 2
         /\ req[r].body[2].id = 3
         /\ req[r].body[3].id = 1
         /\ \E i \in 1..3 : req[r].body[i].videos # <<>>

====
